---- MODULE Spec2Model ----
(***************************************************************************)
(* Model of the tax-1040-streamlit repository: the IRSTaxEngine of         *)
(* irs_rules_engine.py and the handlers of app.py that drive it.           *)
(*                                                                         *)
(* Money is held in whole cents (26263.00 dollars is 2626300).  Bracket    *)
(* rates are held in percent and the EITC phase-out rates in 1/10000, so   *)
(* the products the code rounds with round(x, 2) are exact integers in a   *)
(* finer unit and the rounding is modelled by RoundTo.                     *)
(***************************************************************************)
EXTENDS Integers, Sequences, FiniteSets, TLC

-----------------------------------------------------------------------------
(* Bounds of the input domains.                                            *)

MaxDependents == 4
MaxCalls == 2
NumRequests == 2
EdgeSpan == 3
MaxGrid == 32
MaxDocs == 3
MaxActions == 2
MaxRenders == 2

-----------------------------------------------------------------------------
(* Tables of IRSTaxEngine.                                                 *)

RecognizedStatuses ==
    {"single", "married_joint", "head_of_household", "married_separate",
     "surviving_spouse"}

SINGLE_DEDUCTION == 1460000

STANDARD_DEDUCTIONS ==
    [s \in RecognizedStatuses |->
        CASE s = "single"            -> 1460000
          [] s = "married_joint"     -> 2920000
          [] s = "head_of_household" -> 2190000
          [] s = "married_separate"  -> 1460000
          [] s = "surviving_spouse"  -> 2920000]

\* float('inf'), the upper bound of the last bracket: the largest integer of
\* the checker, above every income used.
INF == 2147483647

\* (bracket_min, bracket_max, rate in percent), bounds in cents.
TAX_BRACKETS_HOH ==
    << <<0,        1160000,  10>>,
       <<1160000,  4715000,  12>>,
       <<4715000,  10052500, 22>>,
       <<10052500, 19195000, 24>>,
       <<19195000, 24372500, 32>>,
       <<24372500, 60935000, 35>>,
       <<60935000, INF,      37>> >>

CHILD_TAX_CREDIT == 200000
ADDITIONAL_CHILD_TAX_CREDIT_MAX == 160000

EITC_2025 ==
    [t \in 0..3 |->
        CASE t = 0 -> [max_income |-> 1790000, max_credit |-> 63200]
          [] t = 1 -> [max_income |-> 4790000, max_credit |-> 425700]
          [] t = 2 -> [max_income |-> 5390000, max_credit |-> 704300]
          [] t = 3 -> [max_income |-> 5790000, max_credit |-> 793100]]

-----------------------------------------------------------------------------
(* Arithmetic helpers (Python's min, max and round).                       *)

Min(a, b) == IF a <= b THEN a ELSE b
Max(a, b) == IF a >= b THEN a ELSE b

\* round(x, 2) of the value n / unit cents, n >= 0: nearest cent, a tie to
\* the even cent.
RoundTo(n, unit) ==
    LET q == n \div unit
        r == n % unit
    IN  IF 2 * r < unit THEN q
        ELSE IF 2 * r > unit THEN q + 1
        ELSE IF q % 2 = 0 THEN q ELSE q + 1

-----------------------------------------------------------------------------
(* IRSTaxEngine: the pure steps of calculate_tax.                          *)

\* The loop of _calculate_tax_brackets from bracket i on; tax is in 1/100
\* cent (cents times percent).  The else-branch is the loop's break.
\* Mutant: the bracket's tax is assigned to the total, not added to it.
RECURSIVE BracketWalk_Overwrite(_, _, _, _, _)
BracketWalk_Overwrite(income, brackets, i, tax, prev_bracket) ==
    IF i > Len(brackets) THEN tax
    ELSE IF income > brackets[i][1]
         THEN BracketWalk_Overwrite(income, brackets, i + 1,
                  (Min(income, brackets[i][2]) - Max(brackets[i][1], prev_bracket))
                      * brackets[i][3],
                  brackets[i][2])
         ELSE tax

\* Mutant: only the brackets the income has passed completely are taxed.
RECURSIVE BracketWalk_FullOnly(_, _, _, _, _)
BracketWalk_FullOnly(income, brackets, i, tax, prev_bracket) ==
    IF i > Len(brackets) THEN tax
    ELSE IF income > brackets[i][2]
         THEN BracketWalk_FullOnly(income, brackets, i + 1,
                  tax + (brackets[i][2] - brackets[i][1]) * brackets[i][3],
                  brackets[i][2])
         ELSE tax

RECURSIVE BracketWalk(_, _, _, _, _)
BracketWalk(income, brackets, i, tax, prev_bracket) ==
    IF i > Len(brackets) THEN tax
    ELSE LET bracket_min == brackets[i][1]
             bracket_max == brackets[i][2]
             rate        == brackets[i][3]
         IN  IF income > bracket_min
             THEN LET taxable_in_bracket ==
                          Min(income, bracket_max) - Max(bracket_min, prev_bracket)
                  IN  BracketWalk(income, brackets, i + 1,
                                  tax + taxable_in_bracket * rate, bracket_max)
             ELSE tax

\* Mutant: the total is cut to whole cents, not rounded.
calculate_tax_brackets_Truncate(income, brackets) ==
    BracketWalk(income, brackets, 1, 0, 0) \div 100

calculate_tax_brackets(income, brackets) ==
    RoundTo(BracketWalk(income, brackets, 1, 0, 0), 100)

\* excess * phaseout_rate, with the rate in 1/10000, as whole cents and a rest
\* in 1/10000 cent (the product itself does not fit the checker's integers).
PhaseOut(excess, phaseout_rate) ==
    LET high == (excess \div 10000) * phaseout_rate
        low  == (excess % 10000) * phaseout_rate
    IN  [cents |-> high + (low \div 10000), rest |-> low % 10000]

\* Mutant: the dependent tier is not looked up, tier 0 serves every count.
calculate_eitc_tier0(wages, dependents) ==
    LET eitc_info == EITC_2025[0]
    IN  IF wages <= eitc_info.max_income
        THEN eitc_info.max_credit
        ELSE LET cut == PhaseOut(wages - eitc_info.max_income, 765)
             IN  Max(0, eitc_info.max_credit - cut.cents)

\* Mutant: counts above 3 are not clamped and fall back to tier 0.
calculate_eitc_NoClamp(wages, dependents) ==
    LET eitc_info == IF dependents \in DOMAIN EITC_2025 THEN EITC_2025[dependents]
                     ELSE EITC_2025[0]
    IN  IF wages <= eitc_info.max_income
        THEN eitc_info.max_credit
        ELSE LET cut == PhaseOut(wages - eitc_info.max_income,
                                 IF dependents > 0 THEN 1598 ELSE 765)
             IN  Max(0, eitc_info.max_credit - cut.cents)

calculate_eitc(wages, dependents) ==
    LET deps      == IF dependents > 3 THEN 3 ELSE dependents
        eitc_info == IF deps \in DOMAIN EITC_2025 THEN EITC_2025[deps]
                     ELSE EITC_2025[0]
    IN  IF wages <= eitc_info.max_income
        THEN eitc_info.max_credit
        ELSE LET excess        == wages - eitc_info.max_income
                 phaseout_rate == IF deps > 0 THEN 1598 ELSE 765
                 cut           == PhaseOut(excess, phaseout_rate)
                 \* max_credit - excess * phaseout_rate = whole + part / 10000
                 whole == IF cut.rest = 0 THEN eitc_info.max_credit - cut.cents
                          ELSE eitc_info.max_credit - cut.cents - 1
                 part  == IF cut.rest = 0 THEN 0 ELSE 10000 - cut.rest
             IN  IF whole < 0 THEN 0                     \* max(0, ...)
                 ELSE whole + RoundTo(part + 10000 * (whole % 2), 10000)
                            - (whole % 2)

\* Mutant: the lookup falls back to no deduction at all.
StandardDeduction_ZeroDefault(filing_status) ==
    IF filing_status \in DOMAIN STANDARD_DEDUCTIONS
    THEN STANDARD_DEDUCTIONS[filing_status]
    ELSE 0

\* self.STANDARD_DEDUCTIONS.get(self.filing_status, 14600)
StandardDeduction(filing_status) ==
    IF filing_status \in DOMAIN STANDARD_DEDUCTIONS
    THEN STANDARD_DEDUCTIONS[filing_status]
    ELSE SINGLE_DEDUCTION

\* Mutant: the max(0, ...) floor is missing.
TaxableIncome_NoFloor(wages, deduction) == wages - deduction

TaxableIncome(wages, deduction) == Max(0, wages - deduction)

\* Mutant: statuses other than head_of_household get a schedule of their own.
TaxBeforeCredits_OwnSchedule(filing_status, taxable_income) ==
    IF filing_status = "head_of_household"
    THEN calculate_tax_brackets(taxable_income, TAX_BRACKETS_HOH)
    ELSE calculate_tax_brackets(taxable_income,
             << <<0, 1160000, 10>>, <<1160000, 4715000, 15>>, <<4715000, INF, 25>> >>)

\* Both branches of the filing-status test call the same schedule.
TaxBeforeCredits(filing_status, taxable_income) ==
    IF filing_status = "head_of_household"
    THEN calculate_tax_brackets(taxable_income, TAX_BRACKETS_HOH)
    ELSE calculate_tax_brackets(taxable_income, TAX_BRACKETS_HOH)

\* Mutant: the refundable cap is not multiplied by the dependents.
ChildCredits_FlatCap(tax, dependents) ==
    LET total_child_credit         == CHILD_TAX_CREDIT * dependents
        nonrefundable_child_credit == Min(total_child_credit, tax)
        remaining_child_credit     == total_child_credit - nonrefundable_child_credit
    IN  [total_child_credit         |-> total_child_credit,
         nonrefundable_child_credit |-> nonrefundable_child_credit,
         additional_child_credit    |->
             Min(remaining_child_credit, ADDITIONAL_CHILD_TAX_CREDIT_MAX)]

\* Mutant: the refundable part is the cap, whatever the tax has absorbed.
ChildCredits_CapOnly(tax, dependents) ==
    LET total_child_credit == CHILD_TAX_CREDIT * dependents
    IN  [total_child_credit         |-> total_child_credit,
         nonrefundable_child_credit |-> Min(total_child_credit, tax),
         additional_child_credit    |-> ADDITIONAL_CHILD_TAX_CREDIT_MAX * dependents]

\* Mutant: the non-refundable credit is not limited to the tax.
ChildCredits_NoMin(tax, dependents) ==
    LET total_child_credit         == CHILD_TAX_CREDIT * dependents
        nonrefundable_child_credit == total_child_credit
        remaining_child_credit     == total_child_credit - nonrefundable_child_credit
    IN  [total_child_credit         |-> total_child_credit,
         nonrefundable_child_credit |-> nonrefundable_child_credit,
         additional_child_credit    |->
             Min(remaining_child_credit, ADDITIONAL_CHILD_TAX_CREDIT_MAX * dependents)]

ChildCredits(tax, dependents) ==
    LET total_child_credit         == CHILD_TAX_CREDIT * dependents
        nonrefundable_child_credit == Min(total_child_credit, tax)
        remaining_child_credit     == total_child_credit - nonrefundable_child_credit
        additional_child_credit    ==
            Min(remaining_child_credit, ADDITIONAL_CHILD_TAX_CREDIT_MAX * dependents)
    IN  [total_child_credit         |-> total_child_credit,
         nonrefundable_child_credit |-> nonrefundable_child_credit,
         additional_child_credit    |-> additional_child_credit]

TaxAfterCredits(tax, nonrefundable_child_credit) ==
    LET tax_after_nonrefundable == tax - nonrefundable_child_credit
    IN  Max(0, tax_after_nonrefundable)

\* Mutant: the refundable credits are not netted against the remaining tax.
RefundOwed_NoNetting(tax_after_all, total_refundable_credits) ==
    [refund |-> total_refundable_credits, amount_owed |-> tax_after_all]

\* Mutant: the two differences are taken without the max(0, ...) floor.
RefundOwed_NoFloor(tax_after_all, total_refundable_credits) ==
    IF tax_after_all = 0
    THEN [refund |-> total_refundable_credits, amount_owed |-> 0]
    ELSE [refund      |-> total_refundable_credits - tax_after_all,
          amount_owed |-> tax_after_all - total_refundable_credits]

\* Mutant: what is owed is the whole remaining tax, the credits not deducted.
RefundOwed_OwedGross(tax_after_all, total_refundable_credits) ==
    IF tax_after_all = 0
    THEN [refund |-> total_refundable_credits, amount_owed |-> 0]
    ELSE [refund      |-> Max(0, total_refundable_credits - tax_after_all),
          amount_owed |-> IF tax_after_all > total_refundable_credits
                          THEN tax_after_all ELSE 0]

RefundOwed(tax_after_all, total_refundable_credits) ==
    IF tax_after_all = 0
    THEN [refund |-> total_refundable_credits, amount_owed |-> 0]
    ELSE [refund      |-> Max(0, total_refundable_credits - tax_after_all),
          amount_owed |-> Max(0, tax_after_all - total_refundable_credits)]

\* The form lines as the code fills them, for the two mutants below.
FormLines_AsCoded(extracted_data, deduction, taxable_income, tax, credits, eitc, tax_after_all, refund, amount_owed) ==
    LET wages            == extracted_data.wages
        federal_withheld == extracted_data.federal_tax_withheld
    IN  ("1" :> wages) @@ ("2b" :> extracted_data.interest_income)
        @@ ("3b" :> extracted_data.dividends) @@ ("7" :> wages) @@ ("11" :> wages)
        @@ ("12" :> deduction) @@ ("15" :> taxable_income) @@ ("16" :> tax)
        @@ ("19" :> credits.nonrefundable_child_credit) @@ ("27" :> eitc)
        @@ ("28" :> credits.additional_child_credit) @@ ("24" :> tax_after_all)
        @@ ("25a" :> federal_withheld)
        @@ ("31" :> federal_withheld + credits.additional_child_credit + eitc)
        @@ ("34" :> IF refund > 0 THEN refund ELSE 0)
        @@ ("37" :> IF refund > 0 THEN 0 ELSE amount_owed)

\* Mutant: line 31 leaves the additional child credit out.
FormLines_NoAdditional(extracted_data, deduction, taxable_income, tax, credits, eitc, tax_after_all, refund, amount_owed) ==
    ("31" :> extracted_data.federal_tax_withheld + eitc)
        @@ FormLines_AsCoded(extracted_data, deduction, taxable_income, tax, credits,
                             eitc, tax_after_all, refund, amount_owed)

\* Mutant: the two branches of the refund test are exchanged.
FormLines_Exchanged(extracted_data, deduction, taxable_income, tax, credits, eitc, tax_after_all, refund, amount_owed) ==
    ("34" :> IF refund > 0 THEN 0 ELSE amount_owed)
        @@ ("37" :> IF refund > 0 THEN refund ELSE 0)
        @@ FormLines_AsCoded(extracted_data, deduction, taxable_income, tax, credits,
                             eitc, tax_after_all, refund, amount_owed)

\* The form_1040_lines dictionary; every rounded value is already in cents.
FormLines(extracted_data, deduction, taxable_income, tax, credits, eitc, tax_after_all, refund, amount_owed) ==
    LET wages            == extracted_data.wages
        federal_withheld == extracted_data.federal_tax_withheld
    IN  [k \in {"1", "2b", "3b", "7", "11", "12", "15", "16", "19", "27", "28",
                "24", "25a", "31", "34", "37"} |->
            CASE k = "1"   -> wages
              [] k = "2b"  -> extracted_data.interest_income
              [] k = "3b"  -> extracted_data.dividends
              [] k = "7"   -> wages
              [] k = "11"  -> wages
              [] k = "12"  -> deduction
              [] k = "15"  -> taxable_income
              [] k = "16"  -> tax
              [] k = "19"  -> credits.nonrefundable_child_credit
              [] k = "27"  -> eitc
              [] k = "28"  -> credits.additional_child_credit
              [] k = "24"  -> tax_after_all
              [] k = "25a" -> federal_withheld
              [] k = "31"  -> federal_withheld + credits.additional_child_credit + eitc
              [] k = "34"  -> IF refund > 0 THEN refund ELSE 0
              [] k = "37"  -> IF refund > 0 THEN 0 ELSE amount_owed]

\* calculate_tax from the credits on: deduction, taxable_income and tax are
\* the locals computed so far, filing_status the value of self.filing_status
\* read by the return statement.
AssembleResult(extracted_data, deduction, taxable_income, tax, filing_status) ==
    LET wages            == extracted_data.wages
        federal_withheld == extracted_data.federal_tax_withheld
        dependents       == extracted_data.dependent_count
        credits          == ChildCredits(tax, dependents)
        eitc             == calculate_eitc(wages, dependents)
        tax_after_all    == TaxAfterCredits(tax, credits.nonrefundable_child_credit)
        total_refundable_credits ==
            credits.additional_child_credit + eitc + federal_withheld
        ro               == RefundOwed(tax_after_all, total_refundable_credits)
        form_lines       == FormLines(extracted_data, deduction, taxable_income, tax,
                                      credits, eitc, tax_after_all,
                                      ro.refund, ro.amount_owed)
    IN  [total_income       |-> wages,
         agi                |-> wages,
         standard_deduction |-> deduction,
         taxable_income     |-> taxable_income,
         tax_amount         |-> tax,
         total_credits      |-> credits.total_child_credit + eitc,
         total_tax          |-> tax_after_all,
         total_payments     |-> form_lines["31"],
         refund             |-> ro.refund,
         amount_owed        |-> ro.amount_owed,
         form_1040_lines    |-> form_lines,
         filing_status      |-> filing_status]

\* Mutant: interest and dividends are added to the income that is taxed.
calculate_tax_AllIncome(filing_status, extracted_data) ==
    LET deduction      == StandardDeduction(filing_status)
        taxable_income == TaxableIncome(extracted_data.wages
                                        + extracted_data.interest_income
                                        + extracted_data.dividends, deduction)
        tax            == TaxBeforeCredits(filing_status, taxable_income)
    IN  AssembleResult(extracted_data, deduction, taxable_income, tax, filing_status)

\* IRSTaxEngine.calculate_tax on an engine whose filing_status attribute is
\* filing_status.  The code has no validation and no raise statement: every
\* call returns a result.
calculate_tax(filing_status, extracted_data) ==
    LET deduction      == StandardDeduction(filing_status)
        taxable_income == TaxableIncome(extracted_data.wages, deduction)
        tax            == TaxBeforeCredits(filing_status, taxable_income)
    IN  AssembleResult(extracted_data, deduction, taxable_income, tax, filing_status)

-----------------------------------------------------------------------------
(* State.                                                                  *)

VARIABLES
    c_profile,      \* the extracted_data dictionary a caller passes to calculate_tax
    c_status,       \* engine.filing_status of the caller's engine
    c_calls,        \* number of calculate_tax calls made on that engine
    c_result,       \* what the latest call returned
    c_prev,         \* what the call before it returned
    c_raised,       \* the exception the latest call raised, "none" if it returned
    pc,             \* app.py: position of each request's handler
    manual_data,    \* app.py: the manual_data dictionary of each request
    engine_status,  \* filing_status of each IRSTaxEngine instance
    h_deduction,    \* calculate_tax local 'deduction' of each request's call
    h_tax,          \* calculate_tax local 'tax' of each request's call
    tax_calculations,  \* what each request's calculate_tax call returned
    overlapped,     \* some request assigned a status while another was in between
                    \* its own assignment and its return
    b_income,       \* the income of the latest _calculate_tax_brackets call
    b_tax,          \* what that call returned
    b_prev_income,  \* the income of the call before it
    b_prev_tax,     \* what the call before it returned
    e_wages,        \* the wages of the latest _calculate_eitc call
    e_dependents,   \* the dependents of that call
    e_credit,       \* what that call returned
    p_file,         \* the PDF of the latest process_pdf call: what each method yields
    p_tried,        \* the extraction methods that call ran, in order
    p_saved,        \* the text that call wrote to extracted_text.txt
    p_out,          \* what that call returned
    k_docs,         \* the list passed to the latest combine_extracted_data call
    k_combined,     \* what that call returned
    session_state,  \* app.py: st.session_state of one browser session
    origin,         \* the number of the calculate action that wrote each key
    disk,           \* the paths of the generated PDFs that exist
    made,           \* the number of temporary paths handed out so far
    actions,        \* the number of calculate actions started so far
    last_action,    \* how the latest calculate action ended
    engine_used,    \* engine.filing_status in the latest PDF Upload action
    upload,         \* the sidebar choice and documents of that action
    renders,        \* renders of the Form 1040 Generator tab since the latest
                    \* calculate action
    offered         \* whether the latest such render offered the PDF download

cvars == <<c_profile, c_status, c_calls, c_result, c_prev, c_raised>>
hvars == <<pc, manual_data, engine_status, h_deduction, h_tax, tax_calculations,
           overlapped>>
fvars == <<b_income, b_tax, b_prev_income, b_prev_tax,
           e_wages, e_dependents, e_credit>>
dvars == <<p_file, p_tried, p_saved, p_out, k_docs, k_combined>>
svars == <<session_state, origin, disk, made, actions, last_action, engine_used,
           upload, renders, offered>>
vars  == <<c_profile, c_status, c_calls, c_result, c_prev, c_raised,
           pc, manual_data, engine_status, h_deduction, h_tax, tax_calculations,
           overlapped,
           b_income, b_tax, b_prev_income, b_prev_tax,
           e_wages, e_dependents, e_credit,
           p_file, p_tried, p_saved, p_out, k_docs, k_combined,
           session_state, origin, disk, made, actions, last_action, engine_used,
           upload, renders, offered>>

NoResult == [none |-> TRUE]

-----------------------------------------------------------------------------
(* Input domains.                                                          *)

\* Values a caller may assign to engine.filing_status: the five table keys and
\* the token app.py derives from the label "Married Filing Jointly".
StatusTokens == RecognizedStatuses \cup {"married_filing_jointly"}

WagesDomain    == {-10000, 0, 1460000, 2000000, 2626300, 5500000, 30000000}
WithheldDomain == {-5000, 0, 26400, 8000000}
DependentsDomain == -1 .. MaxDependents
OtherDomain    == {-100, 0, 5000}

Profiles ==
    [filing_status        : {"head_of_household", "single"},
     dependent_count      : DependentsDomain,
     wages                : WagesDomain,
     federal_tax_withheld : WithheldDomain,
     interest_income      : OtherDomain,
     dividends            : OtherDomain,
     daycare_expenses     : OtherDomain]

NonNegative(p) ==
    /\ p.wages >= 0
    /\ p.federal_tax_withheld >= 0
    /\ p.dependent_count >= 0

HasNegativeField(p) ==
    \/ p.wages < 0
    \/ p.federal_tax_withheld < 0
    \/ p.interest_income < 0
    \/ p.dividends < 0
    \/ p.daycare_expenses < 0
    \/ p.dependent_count < 0

\* Profiles of the repeated-call runs.
ClientProfiles ==
    {p \in Profiles : /\ ~HasNegativeField(p)
                      /\ p.interest_income = 0
                      /\ p.dividends = 0
                      /\ p.daycare_expenses = 0}

Requests == 1 .. NumRequests

-----------------------------------------------------------------------------
(* A caller of the engine: engine = IRSTaxEngine(), then assignments to    *)
(* engine.filing_status and calls of engine.calculate_tax(profile).        *)

\* No helper has been called on its own: -1 stands for "no call yet".
HelpersIdle ==
    /\ b_income = -1
    /\ b_tax = -1
    /\ b_prev_income = -1
    /\ b_prev_tax = -1
    /\ e_wages = -1
    /\ e_dependents = -1
    /\ e_credit = -1
    /\ p_file = NoResult
    /\ p_tried = << >>
    /\ p_saved = NoResult
    /\ p_out = NoResult
    /\ k_docs = << >>
    /\ k_combined = NoResult

\* The session state as the first run of the script initialises it (None is
\* NoResult for the dictionaries and 0 for the path), nothing generated yet.
SessionIdle ==
    /\ session_state = [extracted_data   |-> NoResult,
                        tax_calculations |-> NoResult,
                        form_1040_path   |-> 0]
    /\ origin = [extracted_data |-> 0, tax_calculations |-> 0, form_1040_path |-> 0]
    /\ disk = {}
    /\ made = 0
    /\ actions = 0
    /\ last_action = "none"
    /\ engine_used = "unallocated"
    /\ upload = NoResult
    /\ renders = 0
    /\ offered = FALSE

HandlersIdle ==
    /\ pc = [r \in Requests |-> "idle"]
    /\ manual_data = [r \in Requests |-> NoResult]
    /\ engine_status = [r \in Requests |-> "unallocated"]
    /\ h_deduction = [r \in Requests |-> 0]
    /\ h_tax = [r \in Requests |-> 0]
    /\ tax_calculations = [r \in Requests |-> NoResult]
    /\ overlapped = FALSE
    /\ SessionIdle

\* __init__ sets filing_status to "single".
EngineInit(profiles) ==
    /\ c_profile \in profiles
    /\ c_status = "single"
    /\ c_calls = 0
    /\ c_result = NoResult
    /\ c_prev = NoResult
    /\ c_raised = "none"

SetFilingStatus(limit, s) ==
    /\ c_calls < limit
    /\ c_status' = s
    /\ UNCHANGED <<c_profile, c_calls, c_result, c_prev, c_raised>>
    /\ UNCHANGED hvars
    /\ UNCHANGED fvars
    /\ UNCHANGED dvars
    /\ UNCHANGED svars

\* Mutant: the clamped dependent count is written back into the dictionary.
CalculateTax_ClampsProfile(limit) ==
    /\ c_calls < limit
    /\ c_result' = calculate_tax(c_status, c_profile)
    /\ c_raised' = "none"
    /\ c_prev' = c_result
    /\ c_calls' = c_calls + 1
    /\ c_profile' = [c_profile EXCEPT !.dependent_count = Min(@, 3)]
    /\ UNCHANGED c_status
    /\ UNCHANGED hvars
    /\ UNCHANGED fvars
    /\ UNCHANGED dvars
    /\ UNCHANGED svars

CalculateTax(limit) ==
    /\ c_calls < limit
    /\ c_result' = calculate_tax(c_status, c_profile)
    /\ c_raised' = "none"
    /\ c_prev' = c_result
    /\ c_calls' = c_calls + 1
    /\ UNCHANGED <<c_profile, c_status>>
    /\ UNCHANGED hvars
    /\ UNCHANGED fvars
    /\ UNCHANGED dvars
    /\ UNCHANGED svars

\* One call per engine, every profile.
InitCalc == EngineInit(Profiles) /\ HandlersIdle /\ HelpersIdle

NextCalc ==
    \/ \E s \in StatusTokens : SetFilingStatus(1, s)
    \/ CalculateTax(1)

SpecCalc == InitCalc /\ [][NextCalc]_vars

\* Up to MaxCalls calls on one engine with one profile.
InitClient == EngineInit(ClientProfiles) /\ HandlersIdle /\ HelpersIdle

NextClient ==
    \/ \E s \in StatusTokens : SetFilingStatus(MaxCalls, s)
    \/ CalculateTax(MaxCalls)

SpecClient == InitClient /\ [][NextClient]_vars

-----------------------------------------------------------------------------
(* app.py, Manual Entry: the handler of "Calculate & Generate Form 1040".  *)
(* Streamlit runs each session's script in a thread of its own, so the     *)
(* handlers of different requests interleave statement by statement.       *)

\* The options of the Manual Entry filing-status selectbox.
ManualStatusLabels == {"Head of Household", "Single", "Married Filing Jointly"}

\* status.lower().replace(" ", "_")
LowerUnderscore(label) ==
    CASE label = "Head of Household"           -> "head_of_household"
      [] label = "Single"                      -> "single"
      [] label = "Married Filing Jointly"      -> "married_filing_jointly"
      [] label = "Married Filing Separately"   -> "married_filing_separately"
      [] label = "Qualifying Surviving Spouse" -> "qualifying_surviving_spouse"

\* What the widgets of the form can hold (every number_input has min_value 0).
ManualWages == {2626300, 5500000}

ManualInputs ==
    [status     : ManualStatusLabels,
     dependents : {1},
     wages      : ManualWages,
     fed_tax    : {26400},
     interest   : {0},
     dividends  : {0},
     daycare    : {0}]

\* Mutant: one module-level engine serves every request.
EngineOf_Shared(r) == 1

\* The engine object bound to the handler's local variable 'engine':
\* IRSTaxEngine() makes a new object in every run of the handler.
EngineOf(r) == r

\* if st.button(...): manual_data = {...}
Click(r, w) ==
    /\ pc[r] = "idle"
    /\ manual_data' = [manual_data EXCEPT ![r] =
            [filing_status        |-> LowerUnderscore(w.status),
             dependent_count      |-> w.dependents,
             wages                |-> w.wages,
             federal_tax_withheld |-> w.fed_tax,
             interest_income      |-> w.interest,
             dividends            |-> w.dividends,
             daycare_expenses     |-> w.daycare]]
    /\ pc' = [pc EXCEPT ![r] = "built"]
    /\ UNCHANGED <<engine_status, h_deduction, h_tax, tax_calculations, overlapped>>
    /\ UNCHANGED cvars
    /\ UNCHANGED fvars
    /\ UNCHANGED dvars
    /\ UNCHANGED svars

\* engine = IRSTaxEngine()
Construct(r) ==
    /\ pc[r] = "built"
    /\ engine_status' = [engine_status EXCEPT ![EngineOf(r)] = "single"]
    /\ pc' = [pc EXCEPT ![r] = "constructed"]
    /\ UNCHANGED <<manual_data, h_deduction, h_tax, tax_calculations, overlapped>>
    /\ UNCHANGED cvars
    /\ UNCHANGED fvars
    /\ UNCHANGED dvars
    /\ UNCHANGED svars

\* engine.filing_status = manual_data["filing_status"]
AssignStatus(r) ==
    /\ pc[r] = "constructed"
    /\ engine_status' =
           [engine_status EXCEPT ![EngineOf(r)] = manual_data[r].filing_status]
    /\ pc' = [pc EXCEPT ![r] = "assigned"]
    /\ overlapped' = (overlapped \/
                      \E q \in Requests \ {r} : pc[q] \in {"assigned", "deducted", "taxed"})
    /\ UNCHANGED <<manual_data, h_deduction, h_tax, tax_calculations>>
    /\ UNCHANGED cvars
    /\ UNCHANGED fvars
    /\ UNCHANGED dvars
    /\ UNCHANGED svars

\* calculate_tax up to the standard deduction: the first read of self.filing_status
CalcDeduction(r) ==
    /\ pc[r] = "assigned"
    /\ h_deduction' =
           [h_deduction EXCEPT ![r] = StandardDeduction(engine_status[EngineOf(r)])]
    /\ pc' = [pc EXCEPT ![r] = "deducted"]
    /\ UNCHANGED <<manual_data, engine_status, h_tax, tax_calculations, overlapped>>
    /\ UNCHANGED cvars
    /\ UNCHANGED fvars
    /\ UNCHANGED dvars
    /\ UNCHANGED svars

\* calculate_tax: taxable income and the bracket tax, the second read
CalcTax(r) ==
    /\ pc[r] = "deducted"
    /\ h_tax' = [h_tax EXCEPT ![r] =
           TaxBeforeCredits(engine_status[EngineOf(r)],
                            TaxableIncome(manual_data[r].wages, h_deduction[r]))]
    /\ pc' = [pc EXCEPT ![r] = "taxed"]
    /\ UNCHANGED <<manual_data, engine_status, h_deduction, tax_calculations, overlapped>>
    /\ UNCHANGED cvars
    /\ UNCHANGED fvars
    /\ UNCHANGED dvars
    /\ UNCHANGED svars

\* calculate_tax: credits, refund, form lines and the return statement, which
\* reads self.filing_status a last time; the handler stores the result.
CalcReturn(r) ==
    /\ pc[r] = "taxed"
    /\ tax_calculations' = [tax_calculations EXCEPT ![r] =
           AssembleResult(manual_data[r], h_deduction[r],
                          TaxableIncome(manual_data[r].wages, h_deduction[r]),
                          h_tax[r], engine_status[EngineOf(r)])]
    /\ pc' = [pc EXCEPT ![r] = "done"]
    /\ UNCHANGED <<manual_data, engine_status, h_deduction, h_tax, overlapped>>
    /\ UNCHANGED cvars
    /\ UNCHANGED fvars
    /\ UNCHANGED dvars
    /\ UNCHANGED svars

CallerIdle ==
    /\ c_profile = NoResult
    /\ c_status = "single"
    /\ c_calls = 0
    /\ c_result = NoResult
    /\ c_prev = NoResult
    /\ c_raised = "none"

InitApp == HandlersIdle /\ CallerIdle /\ HelpersIdle

NextApp ==
    \E r \in Requests :
        \/ \E w \in ManualInputs : Click(r, w)
        \/ Construct(r)
        \/ AssignStatus(r)
        \/ CalcDeduction(r)
        \/ CalcTax(r)
        \/ CalcReturn(r)

SpecApp == InitApp /\ [][NextApp]_vars

-----------------------------------------------------------------------------
(* The two helpers of the engine called on their own.                      *)

\* The upper bounds of the schedule's bounded brackets.
BracketEdges ==
    {TAX_BRACKETS_HOH[i][2] : i \in 1 .. (Len(TAX_BRACKETS_HOH) - 1)}

\* Incomes in cents: up to EdgeSpan cents around 0 and around every edge, a
\* grid of 20000.00 steps, and a few amounts in between.
BracketIncomes ==
    (0 .. EdgeSpan)
        \cup UNION {{b + k : k \in (-EdgeSpan) .. EdgeSpan} : b \in BracketEdges}
        \cup {k * 2000000 : k \in 0 .. MaxGrid}
        \cup {436300, 1166300, 1234567, 4040000, 28540000}

\* self._calculate_tax_brackets(x, self.TAX_BRACKETS_HOH)
EvalBrackets(x) ==
    /\ b_income' = x
    /\ b_tax' = calculate_tax_brackets(x, TAX_BRACKETS_HOH)
    /\ b_prev_income' = b_income
    /\ b_prev_tax' = b_tax
    /\ UNCHANGED <<e_wages, e_dependents, e_credit>>
    /\ UNCHANGED cvars
    /\ UNCHANGED hvars
    /\ UNCHANGED dvars
    /\ UNCHANGED svars

InitHelpers == HelpersIdle /\ HandlersIdle /\ CallerIdle

NextBrackets == \E x \in BracketIncomes : EvalBrackets(x)

SpecBrackets == InitHelpers /\ [][NextBrackets]_vars

\* Wages in cents: around every tier's max_income, around the wages at which
\* each tier's phase-out reaches the whole credit (excess * rate = max_credit
\* at 8261.4379.., 26639.5494.., 44073.8423.. and 49630.7884.. dollars of
\* excess), and the grid.
EitcWages ==
    UNION {{EITC_2025[t].max_income + k : k \in (-EdgeSpan) .. EdgeSpan} : t \in 0 .. 3}
        \cup UNION {{z + k : k \in (-EdgeSpan) .. EdgeSpan} :
                       z \in {2616144, 7453955, 9797385, 10753079}}
        \cup {k * 2000000 : k \in 0 .. MaxGrid}
        \cup {2626300, 5500000}

\* self._calculate_eitc(w, d)
EvalEitc(w, d) ==
    /\ e_wages' = w
    /\ e_dependents' = d
    /\ e_credit' = calculate_eitc(w, d)
    /\ UNCHANGED <<b_income, b_tax, b_prev_income, b_prev_tax>>
    /\ UNCHANGED cvars
    /\ UNCHANGED hvars
    /\ UNCHANGED dvars
    /\ UNCHANGED svars

NextEitc == \E w \in EitcWages, d \in DependentsDomain : EvalEitc(w, d)

SpecEitc == InitHelpers /\ [][NextEitc]_vars

-----------------------------------------------------------------------------
(* document_processor.py: PDFProcessor.                                    *)
(*                                                                         *)
(* A PDF is held as what each extraction method yields for it: the number  *)
(* of characters of the stripped text, and the content the field patterns  *)
(* of _extract_fields_smart find in a text of that document.               *)

Methods == {"pdfplumber", "ocr", "pypdf2"}

\* Stripped lengths around the two thresholds of process_pdf.
TextLengths == {0, 49, 50, 99, 100, 250}

\* What the patterns find: filing_status "" when no status line matches, the
\* name and the SSN "" when none matches, amounts in cents.
NoStatusContent ==
    [taxpayer_name |-> "James T. Kirk", taxpayer_ssn |-> "",
     filing_status |-> "", wages |-> 5500000, federal_tax_withheld |-> 800010,
     daycare_expenses |-> 0, dependent_count |-> 0]

JointContent ==
    [taxpayer_name |-> "", taxpayer_ssn |-> "400-00-4702",
     filing_status |-> "married_joint", wages |-> 2000000,
     federal_tax_withheld |-> 26420, daycare_expenses |-> 310000,
     dependent_count |-> 2]

HouseholdContent ==
    [taxpayer_name |-> "Whitney M. Refund", taxpayer_ssn |-> "400-00-4702",
     filing_status |-> "head_of_household", wages |-> 2626300,
     federal_tax_withheld |-> 26400, daycare_expenses |-> 0,
     dependent_count |-> 1]

Contents == {NoStatusContent, JointContent, HouseholdContent}

PdfFiles ==
    [pdfplumber : TextLengths, ocr : TextLengths, pypdf2 : TextLengths,
     content : {NoStatusContent, JointContent}]

\* _extract_with_pdfplumber, _extract_with_ocr, _extract_with_pypdf2: the
\* text the method m yields for the file ("" after an exception).
ExtractWith(m, file) == [by |-> m, chars |-> file[m], content |-> file.content]

\* fields.get(k, default) and the truth value of a string.
Get(fields, k, default) == IF k \in DOMAIN fields THEN fields[k] ELSE default
Truthy(fields, k) == k \in DOMAIN fields /\ fields[k] # ""

\* _extract_fields_smart: name, SSN and filing status are set only when
\* found, the dependent count always, the five amounts default to 0.0.
extract_fields_smart(text) ==
    LET c     == text.content
        found == {k \in {"taxpayer_name", "taxpayer_ssn", "filing_status"} :
                     c[k] # ""}
    IN  [k \in found \cup {"dependent_count", "wages", "federal_tax_withheld",
                           "daycare_expenses", "interest_income", "dividends"} |->
            IF k \in {"interest_income", "dividends"} THEN 0 ELSE c[k]]

\* _get_manual_data: the Whitney M. Refund example.
get_manual_data ==
    [document_type    |-> "tax_example",
     extracted_fields |->
         [taxpayer_name        |-> "Whitney M. Refund",
          taxpayer_ssn         |-> "400-00-4702",
          filing_status        |-> "head_of_household",
          wages                |-> 2626300,
          federal_tax_withheld |-> 26400,
          dependent_count      |-> 1,
          daycare_expenses     |-> 310000,
          interest_income      |-> 0,
          dividends            |-> 0]]

\* process_pdf: the text after METHOD 1, 2 and 3.
TextAfterOcr(file) ==
    LET text == ExtractWith("pdfplumber", file)
    IN  IF text.chars < 100 THEN ExtractWith("ocr", file) ELSE text

TextAfterPyPdf2(file) ==
    LET text == TextAfterOcr(file)
    IN  IF text.chars < 50 THEN ExtractWith("pypdf2", file) ELSE text

\* The methods process_pdf runs for the file, in the order of the calls.
MethodsTried(file) ==
    <<"pdfplumber">>
        \o (IF file.pdfplumber < 100 THEN <<"ocr">> ELSE << >>)
        \o (IF TextAfterOcr(file).chars < 50 THEN <<"pypdf2">> ELSE << >>)

process_pdf(file) ==
    LET text == TextAfterPyPdf2(file)
    IN  IF text.chars < 50
        THEN get_manual_data
        ELSE [document_type    |-> "tax_document",
              extracted_fields |-> extract_fields_smart(text),
              raw_text         |-> text]

\* processor.process_pdf(file_path) called on its own.
ProcessPdf(file) ==
    /\ p_file' = file
    /\ p_tried' = MethodsTried(file)
    /\ p_saved' = (IF TextAfterPyPdf2(file).chars > 0
                   THEN TextAfterPyPdf2(file) ELSE p_saved)
    /\ p_out' = process_pdf(file)
    /\ UNCHANGED <<k_docs, k_combined>>
    /\ UNCHANGED cvars
    /\ UNCHANGED hvars
    /\ UNCHANGED fvars
    /\ UNCHANGED svars

NextPdf == \E file \in PdfFiles : ProcessPdf(file)

SpecPdf == InitHelpers /\ [][NextPdf]_vars

\* The five amounts combine_extracted_data adds up.
NumericFields ==
    {"wages", "federal_tax_withheld", "interest_income", "dividends",
     "daycare_expenses"}

\* The dictionary combine_extracted_data starts from.
CombinedDefaults ==
    [taxpayer_name        |-> "",
     taxpayer_ssn         |-> "",
     filing_status        |-> "single",
     dependent_count      |-> 0,
     wages                |-> 0,
     federal_tax_withheld |-> 0,
     interest_income      |-> 0,
     dividends            |-> 0,
     daycare_expenses     |-> 0]

\* Mutant: the dependent counts of the documents are added up.
CombineStep_SumDependents(combined, data) ==
    LET fields == Get(data, "extracted_fields", << >>)
    IN  [k \in DOMAIN combined |->
            IF k \in NumericFields \cup {"dependent_count"}
            THEN combined[k] + Get(fields, k, 0)
            ELSE IF Truthy(fields, k) /\ (k = "filing_status" \/ combined[k] = "")
                 THEN fields[k]
                 ELSE combined[k]]

\* One pass of the loop over all_data.
CombineStep(combined, data) ==
    LET fields == Get(data, "extracted_fields", << >>)
    IN  [k \in DOMAIN combined |->
            CASE k \in {"taxpayer_name", "taxpayer_ssn"} ->
                     IF combined[k] = "" /\ Truthy(fields, k)
                     THEN fields[k] ELSE combined[k]
              [] k = "filing_status" ->
                     IF Truthy(fields, k) THEN fields[k] ELSE combined[k]
              [] k \in NumericFields ->
                     IF k \in DOMAIN fields
                     THEN combined[k] + fields[k] ELSE combined[k]
              [] k = "dependent_count" ->
                     IF k \in DOMAIN fields
                     THEN Max(combined[k], fields[k]) ELSE combined[k]]

RECURSIVE CombineWalk(_, _, _)
CombineWalk(all_data, i, combined) ==
    IF i > Len(all_data) THEN combined
    ELSE CombineWalk(all_data, i + 1, CombineStep(combined, all_data[i]))

combine_extracted_data(all_data) == CombineWalk(all_data, 1, CombinedDefaults)

\* Documents as process_pdf returns them, a W-2 that carries two of the
\* amounts only, and a record without extracted_fields.
CombineDocs ==
    {process_pdf([pdfplumber |-> 250, ocr |-> 0, pypdf2 |-> 0, content |-> c]) :
         c \in Contents}
        \cup {get_manual_data,
              [document_type    |-> "w2",
               extracted_fields |-> [wages |-> 1234567,
                                     federal_tax_withheld |-> 100010]],
              [document_type |-> "unknown"]}

RECURSIVE SeqsUpTo(_, _)
SeqsUpTo(S, n) ==
    IF n = 0 THEN {<< >>}
    ELSE LET shorter == SeqsUpTo(S, n - 1)
         IN  shorter \cup {Append(q, x) : q \in shorter, x \in S}

\* processor.combine_extracted_data(docs) called on its own, once on a
\* processor (the PDF Upload handler makes one call per run).
Combine(docs) ==
    /\ k_combined = NoResult
    /\ k_docs' = docs
    /\ k_combined' = combine_extracted_data(docs)
    /\ UNCHANGED <<p_file, p_tried, p_saved, p_out>>
    /\ UNCHANGED cvars
    /\ UNCHANGED hvars
    /\ UNCHANGED fvars
    /\ UNCHANGED svars

NextCombine == \E docs \in SeqsUpTo(CombineDocs, MaxDocs) : Combine(docs)

SpecCombine == InitHelpers /\ [][NextCombine]_vars

-----------------------------------------------------------------------------
(* app.py, one browser session: the script runs from top to bottom for     *)
(* every interaction, one run at a time, so each run is one step.          *)

\* The options of the sidebar filing-status selectbox.
SidebarLabels ==
    {"Head of Household", "Single", "Married Filing Jointly",
     "Married Filing Separately", "Qualifying Surviving Spouse"}

\* The first status_map of the PDF Upload handler (token to label).
PdfStatusMap ==
    [t \in {"head_of_household", "married_joint", "single"} |->
        CASE t = "head_of_household" -> "Head of Household"
          [] t = "married_joint"     -> "Married Filing Jointly"
          [] t = "single"            -> "Single"]

\* The second status_map of the handler (label to token).
StatusMap ==
    [l \in {"Head of Household", "Single", "Married Filing Jointly"} |->
        CASE l = "Head of Household"      -> "head_of_household"
          [] l = "Single"                 -> "single"
          [] l = "Married Filing Jointly" -> "married_joint"]

\* "Use filing status from PDF or selected": the label the handler settles on.
CurrentStatus(filing_status, extracted_data) ==
    IF Truthy(extracted_data, "filing_status")
           /\ extracted_data.filing_status \in DOMAIN PdfStatusMap
    THEN PdfStatusMap[extracted_data.filing_status]
    ELSE filing_status

\* status_map.get(current_status, "single")
UploadEngineStatus(filing_status, extracted_data) ==
    LET current_status == CurrentStatus(filing_status, extracted_data)
    IN  IF current_status \in DOMAIN StatusMap
        THEN StatusMap[current_status] ELSE "single"

\* The manual_data dictionary of the Manual Entry handler, the name and SSN
\* widgets left empty.
ManualData(w) ==
    [taxpayer_name        |-> "",
     taxpayer_ssn         |-> "",
     filing_status        |-> LowerUnderscore(w.status),
     dependent_count      |-> w.dependents,
     wages                |-> w.wages,
     federal_tax_withheld |-> w.fed_tax,
     interest_income      |-> w.interest,
     dividends            |-> w.dividends,
     daycare_expenses     |-> w.daycare]

\* Both handlers from the assignment of the calculation on: the two session
\* keys are written, then create_form_1040 either returns a fresh temporary
\* path, which is stored and followed by st.rerun(), or raises, which the
\* handler's except clause reports.
StoreAndGenerate(data, calc, raises) ==
    LET n == actions + 1
    IN  /\ actions' = n
        /\ renders' = 0
        /\ offered' = FALSE
        /\ IF raises
           THEN /\ session_state' = [session_state EXCEPT
                                        !.tax_calculations = calc,
                                        !.extracted_data = data]
                /\ origin' = [origin EXCEPT !.tax_calculations = n,
                                            !.extracted_data = n]
                /\ last_action' = "error"
                /\ UNCHANGED <<disk, made>>
           ELSE /\ session_state' = [extracted_data   |-> data,
                                     tax_calculations |-> calc,
                                     form_1040_path   |-> made + 1]
                /\ origin' = [extracted_data   |-> n,
                              tax_calculations |-> n,
                              form_1040_path   |-> n]
                /\ last_action' = "ok"
                /\ disk' = disk \cup {made + 1}
                /\ made' = made + 1

\* Manual Entry: a click on "Calculate & Generate Form 1040".
ManualCalculate(w, raises) ==
    /\ actions < MaxActions
    /\ LET manual == ManualData(w)
       IN  StoreAndGenerate(manual, calculate_tax(manual.filing_status, manual),
                            raises)
    /\ UNCHANGED <<engine_used, upload>>
    /\ UNCHANGED cvars
    /\ UNCHANGED hvars
    /\ UNCHANGED fvars
    /\ UNCHANGED dvars

\* PDF Upload: a click on "Process & Generate Form 1040" with the files
\* uploaded (their temporary copies are deleted again inside the loop).
UploadCalculate(filing_status, uploaded_files, raises) ==
    /\ actions < MaxActions
    /\ Len(uploaded_files) > 0
    /\ LET all_extracted == [i \in 1 .. Len(uploaded_files) |->
                                process_pdf(uploaded_files[i])]
           extracted     == combine_extracted_data(all_extracted)
           status        == UploadEngineStatus(filing_status, extracted)
       IN  /\ StoreAndGenerate(extracted, calculate_tax(status, extracted), raises)
           /\ engine_used' = status
    /\ upload' = [filing_status |-> filing_status, uploaded_files |-> uploaded_files]
    /\ UNCHANGED cvars
    /\ UNCHANGED hvars
    /\ UNCHANGED fvars
    /\ UNCHANGED dvars

\* A run of the script with the Form 1040 Generator tab chosen.  When the
\* download is offered, create_filing_package writes a second form, which the
\* tab removes, and an instructions file, which stays; the tab then removes
\* the PDF at form_1040_path.
RenderGenerator ==
    /\ renders < MaxRenders
    /\ renders' = renders + 1
    /\ IF /\ session_state.tax_calculations # NoResult
          /\ session_state.form_1040_path # 0
          /\ session_state.form_1040_path \in disk
       THEN /\ offered' = TRUE
            /\ made' = made + 2
            /\ disk' = (disk \ {session_state.form_1040_path}) \cup {made + 2}
       ELSE /\ offered' = FALSE
            /\ UNCHANGED <<disk, made>>
    /\ UNCHANGED <<session_state, origin, actions, last_action, engine_used, upload>>
    /\ UNCHANGED cvars
    /\ UNCHANGED hvars
    /\ UNCHANGED fvars
    /\ UNCHANGED dvars

\* Files the session uploads: read by pdfplumber, or by no method at all.
Readable(c) == [pdfplumber |-> 250, ocr |-> 0, pypdf2 |-> 0, content |-> c]
Unreadable(c) == [pdfplumber |-> 0, ocr |-> 0, pypdf2 |-> 0, content |-> c]

UploadBatches ==
    {<<Readable(NoStatusContent)>>,
     <<Readable(JointContent)>>,
     <<Readable(HouseholdContent), Readable(NoStatusContent)>>,
     <<Readable(NoStatusContent), Readable(JointContent)>>,
     <<Unreadable(NoStatusContent)>>}

InitSession == HandlersIdle /\ CallerIdle /\ HelpersIdle

NextSession ==
    \/ \E w \in ManualInputs, raises \in BOOLEAN : ManualCalculate(w, raises)
    \/ \E l \in SidebarLabels, files \in UploadBatches, raises \in BOOLEAN :
           UploadCalculate(l, files, raises)
    \/ RenderGenerator

SpecSession == InitSession /\ [][NextSession]_vars

-----------------------------------------------------------------------------
(* Properties of calculate_tax, one call per engine (SpecCalc).            *)

Returned == c_calls > 0
Line(k) == c_result.form_1040_lines[k]

\* C1: for non-negative wages, withholding and dependents, and every status,
\* the result never has refund > 0 and amount_owed > 0 together.
C1_RefundOwedExclusive ==
    (Returned /\ NonNegative(c_profile)) =>
        ~(c_result.refund > 0 /\ c_result.amount_owed > 0)

\* Tax remains after the non-refundable credit and exceeds the refundable
\* credits: an amount is owed and nothing is refunded.
C1_Witness ==
    /\ Returned
    /\ NonNegative(c_profile)
    /\ c_result.total_tax > 0
    /\ c_result.amount_owed > 0
    /\ c_result.refund = 0

IsWhitney(p) ==
    /\ p.wages = 2626300
    /\ p.federal_tax_withheld = 26400
    /\ p.dependent_count = 1
    /\ p.interest_income = 0
    /\ p.dividends = 0
    /\ p.daycare_expenses = 0

\* C4: the Whitney profile under head_of_household yields deduction 21900.00,
\* taxable income 4363.00, tax 436.30, non-refundable child credit 436.30,
\* additional child credit 1563.70, EITC 4257.00, tax after credits 0,
\* total payments 6084.70, refund 6084.70 and nothing owed.
C4_Whitney ==
    (Returned /\ c_status = "head_of_household" /\ IsWhitney(c_profile)) =>
        /\ c_result.standard_deduction = 2190000
        /\ c_result.taxable_income = 436300
        /\ c_result.tax_amount = 43630
        /\ Line("19") = 43630
        /\ Line("28") = 156370
        /\ Line("27") = 425700
        /\ c_result.total_tax = 0
        /\ c_result.total_payments = 608470
        /\ c_result.refund = 608470
        /\ c_result.amount_owed = 0

C4_Witness ==
    Returned /\ c_status = "head_of_household" /\ IsWhitney(c_profile)

\* C5: for non-negative wages, withholding and dependents, taxable income, tax
\* before credits, both child credits, the EITC, refund and amount owed are
\* all >= 0.
C5_NonNegative ==
    (Returned /\ NonNegative(c_profile)) =>
        /\ c_result.taxable_income >= 0
        /\ c_result.tax_amount >= 0
        /\ Line("19") >= 0
        /\ Line("28") >= 0
        /\ Line("27") >= 0
        /\ c_result.refund >= 0
        /\ c_result.amount_owed >= 0

\* Wages below the standard deduction: the floor of max(0, ...) is what
\* keeps the taxable income at 0.
C5_Witness ==
    /\ Returned
    /\ NonNegative(c_profile)
    /\ c_profile.wages < c_result.standard_deduction
    /\ c_result.taxable_income = 0

\* C6 (as claimed): a profile with a negative monetary field or a negative
\* dependent_count is rejected as InvalidProfile and yields no result.
C6_NegativeRejected ==
    (Returned /\ HasNegativeField(c_profile)) =>
        (c_raised = "InvalidProfile" /\ c_result = NoResult)

\* C7 (as claimed): a filing status outside the five recognized ones is
\* rejected as InvalidProfile and yields no result.
C7_UnknownStatusRejected ==
    (Returned /\ c_status \notin RecognizedStatuses) =>
        (c_raised = "InvalidProfile" /\ c_result = NoResult)

\* C8: the standard deduction is the table amount of the engine's status for
\* the five recognized statuses and 14600.00 for any other status value.
C8_StandardDeduction ==
    Returned =>
        c_result.standard_deduction =
            CASE c_status = "single"            -> 1460000
              [] c_status = "married_joint"     -> 2920000
              [] c_status = "head_of_household" -> 2190000
              [] c_status = "married_separate"  -> 1460000
              [] c_status = "surviving_spouse"  -> 2920000
              [] OTHER                          -> 1460000

C8_Witness ==
    /\ Returned
    /\ c_status \notin RecognizedStatuses
    /\ c_result.standard_deduction = 1460000

\* C9: for dependent_count >= 0 (the tax before credits is never negative),
\* the non-refundable child credit is min(2000 * dependents, tax) and the
\* additional child credit is min(2000 * dependents - non-refundable,
\* 1600 * dependents).
C9_ChildCreditSplit ==
    (Returned /\ c_profile.dependent_count >= 0 /\ c_result.tax_amount >= 0) =>
        LET d == c_profile.dependent_count
        IN  /\ Line("19") = Min(200000 * d, c_result.tax_amount)
            /\ Line("28") = Min(200000 * d - Line("19"), 160000 * d)

\* Several dependents, some tax absorbed, and the per-dependent cap binding.
C9_Witness ==
    /\ Returned
    /\ c_profile.dependent_count >= 2
    /\ Line("19") > 0
    /\ Line("28") = 160000 * c_profile.dependent_count
    /\ Line("28") < 200000 * c_profile.dependent_count - Line("19")

\* C10: for dependent_count >= 0, non-refundable plus additional child
\* credit is at most 2000 * dependent_count.
C10_CreditCap ==
    (Returned /\ c_profile.dependent_count >= 0 /\ c_result.tax_amount >= 0) =>
        Line("19") + Line("28") <= 200000 * c_profile.dependent_count

\* The tax absorbs the whole credit, so nothing of it is refundable.
C10_Witness ==
    /\ Returned
    /\ c_profile.dependent_count >= 1
    /\ Line("19") = 200000 * c_profile.dependent_count
    /\ Line("28") = 0

\* C11: with T the tax after the non-refundable credit and R = additional
\* child credit + EITC + federal_tax_withheld: if T = 0 then refund = R and
\* amount_owed = 0, otherwise refund = max(0, R - T) and
\* amount_owed = max(0, T - R).
C11_RefundResolution ==
    Returned =>
        LET T == c_result.total_tax
            R == Line("28") + Line("27") + c_profile.federal_tax_withheld
        IN  IF T = 0
            THEN c_result.refund = R /\ c_result.amount_owed = 0
            ELSE /\ c_result.refund = (IF R - T > 0 THEN R - T ELSE 0)
                 /\ c_result.amount_owed = (IF T - R > 0 THEN T - R ELSE 0)

\* Tax remains and the refundable credits exceed it: the refund is what is
\* left of them.
C11_Witness ==
    /\ Returned
    /\ c_result.total_tax > 0
    /\ c_result.refund > 0
    /\ c_result.refund < Line("28") + Line("27") + c_profile.federal_tax_withheld

\* C15 (as claimed): for every profile whose wages are <= the standard
\* deduction applied, taxable income, tax before credits and the
\* non-refundable child credit are 0 and the additional child credit is
\* 1600 * dependent_count.
C15_BelowDeduction ==
    (Returned /\ c_profile.wages <= c_result.standard_deduction) =>
        /\ c_result.taxable_income = 0
        /\ c_result.tax_amount = 0
        /\ Line("19") = 0
        /\ Line("28") = 160000 * c_profile.dependent_count

\* The same for the profiles the data model admits (dependent_count >= 0).
C15_BelowDeductionValid ==
    (c_profile.dependent_count >= 0) => C15_BelowDeduction

\* C16 (as claimed): the filing_status of the result equals the
\* filing_status of the profile passed to the call.
C16_StatusEchoesProfile ==
    Returned => c_result.filing_status = c_profile.filing_status

\* The result of the profile p compared with the result r, every form line
\* but 2b and 3b.
SameButPassThrough(r, q) ==
    /\ \A f \in DOMAIN r \ {"form_1040_lines"} : r[f] = q[f]
    /\ DOMAIN r.form_1040_lines = DOMAIN q.form_1040_lines
    /\ \A k \in DOMAIN r.form_1040_lines \ {"2b", "3b"} :
           r.form_1040_lines[k] = q.form_1040_lines[k]

\* C17: a profile that differs only in interest_income, dividends or
\* daycare_expenses gives the same result but for form lines 2b and 3b.
C17_OtherFieldsInert ==
    Returned =>
        \A i, v, c \in OtherDomain :
            SameButPassThrough(
                c_result,
                calculate_tax(c_status, [c_profile EXCEPT !.interest_income = i,
                                                          !.dividends = v,
                                                          !.daycare_expenses = c]))

\* All three fields set, and passed through to lines 2b and 3b.
C17_Witness ==
    /\ Returned
    /\ c_profile.interest_income > 0
    /\ c_profile.dividends > 0
    /\ c_profile.daycare_expenses > 0
    /\ c_result.taxable_income > 0
    /\ Line("2b") = c_profile.interest_income
    /\ Line("3b") = c_profile.dividends

\* C18: form line 31 and total_payments both equal federal_tax_withheld +
\* additional child credit + EITC.
C18_TotalPayments ==
    Returned =>
        /\ Line("31") = c_profile.federal_tax_withheld + Line("28") + Line("27")
        /\ c_result.total_payments
               = c_profile.federal_tax_withheld + Line("28") + Line("27")

\* All three parts of the total are present.
C18_Witness ==
    /\ Returned
    /\ c_profile.federal_tax_withheld > 0
    /\ Line("28") > 0
    /\ Line("27") > 0
    /\ c_result.total_payments > c_profile.federal_tax_withheld + Line("27")

\* C19 (as claimed): in every result line 34 equals refund and line 37 equals
\* amount_owed; line 34 is 0 whenever an amount is owed and line 37 is 0
\* whenever there is a refund.
C19_RefundLines ==
    Returned =>
        /\ Line("34") = c_result.refund
        /\ Line("37") = c_result.amount_owed
        /\ (c_result.amount_owed > 0 => Line("34") = 0)
        /\ (c_result.refund > 0 => Line("37") = 0)

\* The same for the profiles the data model admits (non-negative amounts).
C19_RefundLinesValid ==
    NonNegative(c_profile) => C19_RefundLines

\* C20: the tax before credits depends on the filing status only through the
\* taxable income: every status gives the same tax for the same taxable
\* income.
C20_OneSchedule ==
    Returned =>
        \A s \in StatusTokens :
            TaxBeforeCredits(s, c_result.taxable_income) = c_result.tax_amount

\* A status other than head_of_household with tax to pay.
C20_Witness ==
    /\ Returned
    /\ c_status # "head_of_household"
    /\ c_result.taxable_income > 4715000
    /\ c_result.tax_amount > 0

\* C22: tax before credits minus the non-refundable child credit is never
\* negative, so total_tax (line 24) is exactly that difference, and it is 0
\* exactly when 2000 * dependent_count >= tax before credits.
C22_ClampIdle ==
    Returned =>
        /\ c_result.tax_amount - Line("19") >= 0
        /\ c_result.total_tax = c_result.tax_amount - Line("19")
        /\ Line("24") = c_result.tax_amount - Line("19")
        /\ (c_result.total_tax = 0)
               <=> (200000 * c_profile.dependent_count >= c_result.tax_amount)

\* The credit of the dependents exceeds a positive tax and absorbs it all.
C22_Witness ==
    /\ Returned
    /\ c_result.tax_amount > 0
    /\ 200000 * c_profile.dependent_count > c_result.tax_amount
    /\ Line("19") = c_result.tax_amount
    /\ c_result.total_tax = 0

\* C29: for non-negative inputs the result balances: refund - amount_owed =
\* (federal_tax_withheld + additional child credit + EITC) - total tax after
\* credits, and line 34 - line 37 = line 31 - line 24.
C29_Balance ==
    (Returned /\ NonNegative(c_profile)) =>
        /\ c_result.refund - c_result.amount_owed
               = (c_profile.federal_tax_withheld + Line("28") + Line("27"))
                     - c_result.total_tax
        /\ Line("34") - Line("37") = Line("31") - Line("24")

\* Tax remains after the credits and the payments do not cover it.
C29_Witness ==
    /\ Returned
    /\ NonNegative(c_profile)
    /\ Line("31") > 0
    /\ Line("24") > Line("31")
    /\ Line("37") = Line("24") - Line("31")

-----------------------------------------------------------------------------
(* Repeated calls on one engine (SpecClient).                              *)

\* C2 (as claimed): two calls with the same profile return the same result,
\* whatever was assigned to engine.filing_status in between.
C2_SameProfileSameResult ==
    (c_calls >= 2) => (c_result = c_prev)

\* C21: calculate_tax leaves its inputs unchanged: the profile dictionary has
\* the same keys and values after the call, and engine.filing_status is what
\* it was (the class tables are never assigned by the engine).
C21_InputsUnchanged ==
    [][(c_calls' = c_calls + 1) =>
           (c_profile' = c_profile /\ c_status' = c_status)]_vars

\* A call with more than three dependents: _calculate_eitc has lowered its
\* own copy of the count to 3, the dictionary still holds the count given.
C21_Witness ==
    /\ c_calls >= 1
    /\ c_status = "head_of_household"
    /\ c_profile.dependent_count > 3
    /\ c_result.form_1040_lines["27"]
           = calculate_eitc(c_profile.wages, 3)

-----------------------------------------------------------------------------
(* Concurrent Manual Entry requests (SpecApp).                             *)

\* C3: under every interleaving, each request's result is the one computed
\* with that request's own filing status, and reports that status.
C3_OwnFilingStatus ==
    \A r \in Requests :
        pc[r] = "done" =>
            /\ tax_calculations[r].filing_status = manual_data[r].filing_status
            /\ tax_calculations[r].standard_deduction =
                   StandardDeduction(manual_data[r].filing_status)
            /\ tax_calculations[r] =
                   calculate_tax(manual_data[r].filing_status, manual_data[r])

\* Two requests with different statuses, the one setting its status while the
\* other was inside its calculation, both finished.
C3_Witness ==
    /\ overlapped
    /\ \E r, q \in Requests :
          /\ pc[r] = "done" /\ pc[q] = "done"
          /\ manual_data[r].filing_status # manual_data[q].filing_status
          /\ tax_calculations[r].standard_deduction
                 # tax_calculations[q].standard_deduction

\* C25 (as claimed): for every status the Manual Entry form offers, the token
\* assigned to engine.filing_status is one of the five keys of
\* STANDARD_DEDUCTIONS, and the deduction applied is that status's table
\* amount (29200.00 for Married Filing Jointly), never the fallback.
C25_ManualStatusRecognized ==
    \A r \in Requests :
        pc[r] = "done" =>
            /\ engine_status[EngineOf(r)] \in RecognizedStatuses
            /\ tax_calculations[r].standard_deduction =
                   (IF manual_data[r].filing_status
                           = LowerUnderscore("Married Filing Jointly")
                    THEN STANDARD_DEDUCTIONS["married_joint"]
                    ELSE STANDARD_DEDUCTIONS[manual_data[r].filing_status])

-----------------------------------------------------------------------------
(* _calculate_tax_brackets on its own (SpecBrackets).                      *)

\* C12: the bracket tax is non-decreasing in the taxable income: for
\* 0 <= a <= b, bracketTax(a) <= bracketTax(b).
C12_Monotone ==
    (b_prev_income >= 0 /\ b_prev_income <= b_income) => b_prev_tax <= b_tax

\* Two incomes in different brackets, the tax strictly growing.
C12_Witness ==
    /\ b_prev_income > 1160000
    /\ b_prev_income < 4715000
    /\ b_income > 10052500
    /\ b_prev_tax < b_tax

\* C13: at each of the six bracket edges the tax has no jump: the taxes of
\* one cent below the edge, the edge and one cent above it differ by at most
\* one cent per one-cent step.
C13_NoJump ==
    \A b \in {1160000, 4715000, 10052500, 19195000, 24372500, 60935000} :
        ({b_prev_income, b_income} \subseteq {b - 1, b, b + 1}) =>
            LET steps == IF b_income >= b_prev_income
                         THEN b_income - b_prev_income
                         ELSE b_prev_income - b_income
                jump  == IF b_tax >= b_prev_tax
                         THEN b_tax - b_prev_tax
                         ELSE b_prev_tax - b_tax
            IN  jump <= steps

\* The last edge, evaluated at the edge and then one cent above it.
C13_Witness ==
    /\ b_prev_income = 60935000
    /\ b_income = 60935001
    /\ b_prev_tax = 18364725
    /\ b_tax <= b_prev_tax + 1

\* The reference progressive tax in 1/100 cent: the sum over the brackets
\* from i on of rate * max(0, min(income, upperBound) - lowerBound).
RECURSIVE ReferenceTax(_, _)
ReferenceTax(income, i) ==
    IF i > Len(TAX_BRACKETS_HOH) THEN 0
    ELSE LET lowerBound == TAX_BRACKETS_HOH[i][1]
             upperBound == TAX_BRACKETS_HOH[i][2]
             rate       == TAX_BRACKETS_HOH[i][3]
             upto       == IF income <= upperBound THEN income ELSE upperBound
             portion    == IF upto - lowerBound > 0 THEN upto - lowerBound ELSE 0
         IN  rate * portion + ReferenceTax(income, i + 1)

\* C23: for every taxable income >= 0, _calculate_tax_brackets returns the
\* reference progressive tax rounded once at the end (to the nearest cent, a
\* tie to the even cent); brackets whose lower bound is >= the income
\* contribute nothing.
C23_ReferenceTax ==
    (b_income >= 0) =>
        LET exact == ReferenceTax(b_income, 1)
            cents == exact \div 100
            rest  == exact % 100
        IN  /\ b_tax = (IF rest < 50 THEN cents
                        ELSE IF rest > 50 THEN cents + 1
                        ELSE IF cents % 2 = 0 THEN cents ELSE cents + 1)
            /\ \A i \in 1 .. Len(TAX_BRACKETS_HOH) :
                   (TAX_BRACKETS_HOH[i][1] >= b_income) =>
                       ReferenceTax(b_income, i) = 0

\* Two cents into the last bracket: 183647.25 + 0.0074 dollars, rounded up.
C23_Witness ==
    /\ b_income = 60935002
    /\ b_tax = 18364726

-----------------------------------------------------------------------------
(* _calculate_eitc on its own (SpecEitc).                                  *)

\* C14: for wages >= 0 and dependents >= 0 the credit is that of tier
\* min(dependents, 3): the tier's max_credit when wages <= its max_income,
\* otherwise max(0, max_credit - excess * rate) to the cent, with rate 0.1598
\* for dependents > 0 and 0.0765 for 0; it is 0 once excess * rate >= max_credit.
C14_Eitc ==
    (e_wages >= 0 /\ e_dependents >= 0) =>
        LET tier   == IF e_dependents > 3 THEN 3 ELSE e_dependents
            top    == EITC_2025[tier].max_income
            credit == EITC_2025[tier].max_credit
            rate   == IF e_dependents > 0 THEN 1598 ELSE 765
            excess == e_wages - top
            \* excess * rate / 10000 = cents + rest / 10000
            upper  == (excess \div 10000) * rate
            lower  == (excess % 10000) * rate
            cents  == upper + (lower \div 10000)
            rest   == lower % 10000
            short  == (credit - cents) - e_credit
        IN  IF e_wages <= top THEN e_credit = credit
            ELSE IF cents >= credit THEN e_credit = 0
            ELSE /\ short \in {0, 1}
                 /\ short * 10000 - rest \in (-5000) .. 5000

\* More than three dependents, wages inside the phase-out of tier 3.
C14_Witness ==
    /\ e_dependents > 3
    /\ e_wages > EITC_2025[3].max_income
    /\ e_credit > 0
    /\ e_credit < EITC_2025[3].max_credit

\* Zero dependents, the phase-out just complete.
C14_WitnessZero ==
    /\ e_dependents = 0
    /\ e_wages = 2616144
    /\ e_credit = 0
-----------------------------------------------------------------------------
(* process_pdf on its own (SpecPdf).                                       *)

\* C26 (as claimed): process_pdf tries pdfplumber, then OCR, then PyPDF2 in
\* that order; it returns the Whitney example only if each of the three
\* methods yielded fewer than 50 stripped characters, and whenever some
\* method yielded at least 50 the fields returned are extracted from a text
\* of at least 50 characters, not taken from the example.
C26_ExampleOnlyIfAllFailed ==
    (p_file # NoResult) =>
        /\ \E n \in 1 .. 3 : p_tried = SubSeq(<<"pdfplumber", "ocr", "pypdf2">>, 1, n)
        /\ (p_out.document_type = "tax_example") =>
               \A m \in Methods : p_file[m] < 50
        /\ (\E m \in Methods : p_file[m] >= 50) =>
               /\ p_out.document_type = "tax_document"
               /\ p_out.raw_text.chars >= 50
               /\ p_out.extracted_fields = extract_fields_smart(p_out.raw_text)

-----------------------------------------------------------------------------
(* combine_extracted_data on its own (SpecCombine).                        *)

FieldsOf(data) == Get(data, "extracted_fields", << >>)

\* The sum of a field over the documents from i on, absent counted as 0.
RECURSIVE FieldSum(_, _, _)
FieldSum(docs, field, i) ==
    IF i > Len(docs) THEN 0
    ELSE Get(FieldsOf(docs[i]), field, 0) + FieldSum(docs, field, i + 1)

\* The largest dependent_count of the documents, 0 for none.
LargestCount(docs) ==
    LET counts == {0} \cup {Get(FieldsOf(docs[i]), "dependent_count", 0) :
                               i \in 1 .. Len(docs)}
    IN  CHOOSE m \in counts : \A x \in counts : x <= m

\* The orders of n documents.
Orders(n) ==
    {p \in [1 .. n -> 1 .. n] : \A i, j \in 1 .. n : p[i] = p[j] => i = j}

-----------------------------------------------------------------------------
(* One browser session of app.py (SpecSession).                            *)

\* The engine key of a sidebar label.
SidebarStatus(label) ==
    CASE label = "Head of Household"           -> "head_of_household"
      [] label = "Single"                      -> "single"
      [] label = "Married Filing Jointly"      -> "married_joint"
      [] label = "Married Filing Separately"   -> "married_separate"
      [] label = "Qualifying Surviving Spouse" -> "surviving_spouse"

\* The statuses stated in the texts extracted from the uploaded documents.
StatedStatuses(uploaded_files) ==
    {uploaded_files[i].content.filing_status :
         i \in {j \in 1 .. Len(uploaded_files) :
                    process_pdf(uploaded_files[j]).document_type = "tax_document"}}
        \ {""}

\* C24 (as claimed): in the PDF Upload flow the status the calculation uses
\* is one found in the uploaded documents when a document states one, and
\* the status selected in the sidebar when no document states one.
C24_StatusSource ==
    (upload # NoResult) =>
        LET stated == StatedStatuses(upload.uploaded_files)
        IN  IF stated # {}
            THEN engine_used \in stated
            ELSE engine_used = SidebarStatus(upload.filing_status)

\* C27 (as claimed): extracted_data, tax_calculations and form_1040_path of
\* the session state stem from the same calculate action, also after actions
\* that raised; the Generator tab never offers the PDF of one action next to
\* the calculations of another.
C27_SameAction ==
    (session_state.tax_calculations # NoResult) =>
        /\ origin.extracted_data = origin.tax_calculations
        /\ (session_state.form_1040_path # 0) =>
               origin.form_1040_path = origin.tax_calculations
        /\ (renders > 0 /\ offered) =>
               origin.form_1040_path = origin.tax_calculations

\* C28 (as claimed): after a successful calculation the PDF exists at
\* form_1040_path on every later render of the Generator tab until the next
\* calculation, and each of those renders offers the download.
C28_PdfKept ==
    (last_action = "ok") =>
        /\ session_state.form_1040_path \in disk
        /\ (renders > 0) => offered

====
